---- MODULE Spec2Model ----
(***************************************************************************)
(* Model of the Iron.xyz MCP server (src/unnamed/part_003, index.ts):      *)
(* the spec loader with its process-wide cache, the endpoint index, the    *)
(* tool / prompt dispatchers and the invocation gateway.                   *)
(*                                                                         *)
(* JavaScript runs one callback at a time, so a call is modelled as the    *)
(* sequence of its synchronous segments; a segment ends at an `await`.     *)
(* Several calls may be between segments at once.                          *)
(***************************************************************************)
EXTENDS Integers, Sequences, FiniteSets, TLC

VARIABLES
    env,          \* process.env, read once by the constructor
    overlapping,  \* whether the host hands over a call while another is in flight
    config,       \* this.config
    openApiSpec,  \* this.openApiSpec, the spec cache
    calls,        \* per call slot: the position and locals of a tool/prompt call
    loadLog,      \* history: the load attempts that performed I/O, in completion order
    started,      \* history: number of calls accepted so far
    probe         \* one application of a synchronous function: its input and result

vars == <<env, overlapping, config, openApiSpec, calls, loadLog, started, probe>>

(***************************************************************************)
(* Bounds of the model.                                                    *)
(***************************************************************************)
MaxCalls == 2      \* calls started in one run
MaxLoads == 2      \* load attempts that reach the I/O part of loadOpenApiSpec

CallIds == 1..2   \* slots of the calls the host may have in flight at once

(***************************************************************************)
(* JavaScript values.  Every value is a record tagged with its type, so    *)
(* that values of different types can be compared.                         *)
(***************************************************************************)
Undefined == [t |-> "undefined"]
Null      == [t |-> "null"]
Str(s)    == [t |-> "string", s |-> s]
Arr(a)    == [t |-> "array", a |-> a]
\* An object is the list of its own entries <<key, value>> in the order in
\* which the properties were created.
Obj(e)    == [t |-> "object", e |-> e]
Num(n)    == [t |-> "number", n |-> n]
Bool(b)   == [t |-> "boolean", b |-> b]

\* ToBoolean: undefined, null, the empty string, 0 and false are falsy.
Truthy(v) ==
    ~(v.t \in {"undefined", "null"} \/ v = Str("") \/ v = Num(0) \/ v = Bool(FALSE))

\* a || b
Or(a, b) == IF Truthy(a) THEN a ELSE b

\* `key in v` for an object v
HasKey(v, key) == v.t = "object" /\ \E i \in 1..Len(v.e) : v.e[i][1] = key

\* v[key]: undefined when v has no such property (a string or an array has
\* none of the keys the program asks for); reading a property of undefined
\* or null throws and is guarded by the callers below.
Get(v, key) ==
    IF HasKey(v, key)
    THEN v.e[CHOOSE i \in 1..Len(v.e) : v.e[i][1] = key][2]
    ELSE Undefined

\* A function object with its `length`.
Function(length) == [t |-> "function", length |-> length]

\* What an object without the own property `key` inherits from
\* Object.prototype: `constructor` is Object (length 1), `toString` takes no
\* argument; the keys of the model name no other member.
Inherited(key) ==
    CASE key = "constructor" -> Function(1)
      [] key = "toString"    -> Function(0)
      [] OTHER               -> Undefined

\* v[key] for a key the caller supplies: the own property, else the inherited one.
Lookup(v, key) ==
    IF HasKey(v, key) THEN Get(v, key)
    ELSE IF v.t \in {"object", "array", "function"} THEN Inherited(key)
    ELSE Undefined

\* The object a parser returns is a new object: it carries the number of the
\* load attempt that created it as its identity.
Fresh(v, n) == IF v.t = "object" THEN [t |-> "object", e |-> v.e, id |-> n] ELSE v

(***************************************************************************)
(* Configuration.                                                          *)
(***************************************************************************)
defaultSpecUrls ==
    Obj(<< <<"sandbox", Str("https://api.sandbox.iron.xyz/spec")>>,
           <<"production", Str("https://api.iron.xyz/spec")>> >>)

defaultBaseUrls ==
    Obj(<< <<"sandbox", Str("https://api.sandbox.iron.xyz/api")>>,
           <<"production", Str("https://api.iron.xyz/api")>> >>)

loadConfig(e) ==
    LET environment == Or(e.IRON_ENVIRONMENT, Str("production")) IN
    [ environment    |-> environment,
      openApiSpecUrl |-> Or(e.IRON_OPENAPI_SPEC_URL, Get(defaultSpecUrls, environment.s)),
      localSpecPath  |-> Or(e.IRON_LOCAL_SPEC_PATH, Str("../ironxyz-openapi-spec.yaml")),
      apiKey         |-> e.IRON_API_KEY,
      readOnlyMode   |-> (e.IRON_READ_ONLY_MODE = Str("true")),
      baseUrl        |-> Or(e.IRON_BASE_URL, Get(defaultBaseUrls, environment.s)) ]

\* The environments the model starts from.  IRON_ENVIRONMENT = "staging" has
\* no default URL, so with no override the spec URL is not configured.
EnvSettings ==
    [ IRON_ENVIRONMENT      : {Undefined, Str("staging")},
      IRON_OPENAPI_SPEC_URL : {Undefined},
      IRON_LOCAL_SPEC_PATH  : {Undefined},
      IRON_API_KEY          : {Undefined, Str(""), Str("key-1")},
      IRON_READ_ONLY_MODE   : {Undefined, Str("true")},
      IRON_BASE_URL         : {Undefined} ]

(***************************************************************************)
(* OpenAPI documents the spec URL and the local file may hold.             *)
(***************************************************************************)
OpListCustomers ==
    Obj(<< <<"summary", Str("List customers")>>,
           <<"operationId", Str("listCustomers")>>,
           <<"tags", Arr(<<Str("Customer")>>)>>,
           <<"responses", Obj(<< <<"200", Obj(<< <<"description", Str("OK")>> >>)>> >>)>> >>)

OpCreateCustomer ==
    Obj(<< <<"summary", Str("Create customer")>>,
           <<"operationId", Str("createCustomer")>>,
           <<"tags", Arr(<<Str("Customer")>>)>>,
           <<"requestBody", Obj(<< <<"required", Str("true")>> >>)>>,
           <<"responses", Obj(<< <<"201", Obj(<< <<"description", Str("Created")>> >>)>> >>)>> >>)

OpCreateAddress ==
    Obj(<< <<"operationId", Str("createAddress")>>,
           <<"tags", Arr(<<Str("Addresses")>>)>>,
           <<"responses", Obj(<<>>)>> >>)

\* The document served at the spec URL.
DocA ==
    Obj(<< <<"info", Obj(<< <<"title", Str("Iron API")>>, <<"version", Str("2")>> >>)>>,
           <<"paths", Obj(<<
               <<"/customers", Obj(<< <<"get", OpListCustomers>>,
                                      <<"post", OpCreateCustomer>> >>)>>,
               <<"/addresses", Obj(<< <<"post", OpCreateAddress>> >>)>> >>)>> >>)

\* The document of the bundled local file (an older version).
DocB ==
    Obj(<< <<"info", Obj(<< <<"title", Str("Iron API")>>, <<"version", Str("1")>> >>)>>,
           <<"paths", Obj(<<
               <<"/customers", Obj(<< <<"get", OpListCustomers>> >>)>> >>)>> >>)

(***************************************************************************)
(* Parsing.  A text is named by what it holds.                             *)
(*   yamlA     YAML text of DocA                                           *)
(*   jsonA     JSON text of DocA (JSON.stringify of the parsed body)       *)
(*   jsonDupA  JSON text of DocA with a duplicated key: js-yaml rejects    *)
(*             it, JSON.parse accepts it                                   *)
(*   yamlB     YAML text of DocB                                           *)
(*   scalar    plain text (an HTML or text error page): a YAML scalar      *)
(*   empty     the empty text: yaml.load returns undefined                 *)
(*   garbage   text neither parser accepts                                 *)
(***************************************************************************)
Thrown(what) == [ok |-> FALSE, error |-> what]
Returned(v)  == [ok |-> TRUE, v |-> v]

yamlLoad(text) ==
    CASE text = "yamlA"  -> Returned(DocA)
      [] text = "jsonA"  -> Returned(DocA)
      [] text = "yamlB"  -> Returned(DocB)
      [] text = "scalar" -> Returned(Str("Not Found"))
      [] text = "empty"  -> Returned(Undefined)
      [] OTHER           -> Thrown("YAMLException")

jsonParse(text) ==
    CASE text = "jsonA"    -> Returned(DocA)
      [] text = "jsonDupA" -> Returned(DocA)
      [] OTHER             -> Thrown("SyntaxError")

jsonStringify(v) ==
    CASE v = DocA -> "jsonA"
      [] OTHER    -> "garbage"

\* What the spec URL may answer: no response (network error, non-2xx,
\* timeout), a body axios leaves as a string, or a JSON body axios parsed.
FetchResults ==
    {Thrown("AxiosError")}
    \cup {Returned(Str(t)) : t \in {"yamlA", "jsonDupA", "empty", "garbage"}}
    \cup {Returned(DocA)}

\* What reading the local file may give.
FileResults ==
    {Thrown("ENOENT")} \cup {Returned(t) : t \in {"yamlB", "scalar", "garbage"}}

(***************************************************************************)
(* Spec loader: the part of loadOpenApiSpec after the cache test.          *)
(***************************************************************************)
UrlConfigured(cfg) == Truthy(cfg.openApiSpecUrl)

\* Variant: a failed fetch is not followed by the read of the local file.
specContentNoFallback(cfg, fetch, file) ==
    IF UrlConfigured(cfg)
    THEN IF fetch.ok
         THEN Returned(IF fetch.v.t = "string" THEN fetch.v.s ELSE jsonStringify(fetch.v))
         ELSE Thrown("AxiosError")
    ELSE file

\* specContent, given what the fetch (if any) and the file read (if any) gave.
specContentOf(cfg, fetch, file) ==
    IF UrlConfigured(cfg) /\ fetch.ok
    THEN Returned(IF fetch.v.t = "string" THEN fetch.v.s ELSE jsonStringify(fetch.v))
    ELSE file

\* `catch (yamlError) { this.openApiSpec = JSON.parse(specContent) }`
jsonFallback(yaml, text) == IF yaml.ok THEN yaml ELSE jsonParse(text)

\* "Parse YAML or JSON": yaml.load, and JSON.parse when that throws.
parseSpec(text) == jsonFallback(yamlLoad(text), text)

\* The outer catch: whatever the attempt threw becomes an InternalError.
loadOutcome(parsed, n) ==
    IF parsed.ok THEN Returned(Fresh(parsed.v, n)) ELSE Thrown("InternalError")

parseContent(content, n) ==
    IF content.ok THEN loadOutcome(parseSpec(content.v), n) ELSE Thrown("InternalError")

\* The outcome of one load attempt numbered n: the value assigned to the
\* cache and returned, or the failure the outer catch wraps in an McpError.
loadAttempt(cfg, fetch, file, n) == parseContent(specContentOf(cfg, fetch, file), n)

\* Variant: the cache is never consulted.
cacheHitNever(cache) == FALSE

\* `if (this.openApiSpec) return this.openApiSpec;`
cacheHit(cache) == Truthy(cache)

\* Variant: the cell is written once, a later load keeps the first value.
cacheFirstWriteWins(cache, r) == IF r.ok /\ ~Truthy(cache) THEN r.v ELSE cache

\* Variant: a failed attempt leaves the unparsed text in the cell.
cacheKeepsFailure(cache, r) == IF r.ok THEN r.v ELSE Str("unparsed")

\* this.openApiSpec after a load attempt that ended in r: both parse branches
\* assign their result; a throw leaves the field as it was.
cacheAfterLoad(cache, r) == IF r.ok THEN r.v ELSE cache

\* The I/O one load attempt performs, in order.
loadEvents(cfg, fetch, file) ==
    (IF UrlConfigured(cfg) THEN <<"fetch">> ELSE <<>>)
    \o (IF UrlConfigured(cfg) /\ fetch.ok THEN <<>> ELSE <<"readFile">>)
    \o (IF specContentOf(cfg, fetch, file).ok THEN <<"parse">> ELSE <<>>)

(***************************************************************************)
(* Endpoint index.                                                         *)
(***************************************************************************)
toLowerCase(s) ==
    CASE s \in {"GET", "get", "Get"}         -> "get"
      [] s \in {"POST", "post", "Post"}      -> "post"
      [] s \in {"DELETE", "delete"}          -> "delete"
      [] s \in {"PUT", "put"}                -> "put"
      [] s \in {"PATCH", "patch"}            -> "patch"
      [] s \in {"HEAD", "head"}              -> "head"
      [] s \in {"PARAMETERS", "parameters"}  -> "parameters"
      [] OTHER                               -> s

toUpperCase(s) ==
    CASE s \in {"GET", "get", "Get"}         -> "GET"
      [] s \in {"POST", "post", "Post"}      -> "POST"
      [] s \in {"DELETE", "delete"}          -> "DELETE"
      [] s \in {"PUT", "put"}                -> "PUT"
      [] s \in {"PATCH", "patch"}            -> "PATCH"
      [] s \in {"HEAD", "head"}              -> "HEAD"
      [] s \in {"PARAMETERS", "parameters"}  -> "PARAMETERS"
      [] OTHER                               -> s

\* Variant: only `responses` makes an operation.
isOpenAPIOperationResponsesOnly(value) ==
    /\ value.t \in {"object", "array"}
    /\ HasKey(value, "responses")

isOpenAPIOperation(value) ==
    /\ value.t \in {"object", "array"}
    /\ \/ HasKey(value, "responses")
       \/ HasKey(value, "summary")
       \/ HasKey(value, "description")
       \/ HasKey(value, "operationId")

\* The number a key is when it is an array index ("2", "10"), else -1: the
\* keys of the model that are.
ArrayIndex(key) ==
    CASE key = "0"   -> 0
      [] key = "2"   -> 2
      [] key = "10"  -> 10
      [] key = "200" -> 200
      [] key = "201" -> 201
      [] OTHER       -> -1

\* Object.entries(v) of an object: the own properties, the array-index keys
\* first in ascending order, then the other keys in the order of creation.
Entries(v) ==
    IF v.t = "object"
    THEN SortSeq(SelectSeq(v.e, LAMBDA x : ArrayIndex(x[1]) >= 0),
                 LAMBDA x, y : ArrayIndex(x[1]) < ArrayIndex(y[1]))
         \o SelectSeq(v.e, LAMBDA x : ArrayIndex(x[1]) < 0)
    ELSE <<>>

\* Reading spec.paths[...] or Object.entries(spec.paths) throws a TypeError
\* when the loaded value has no `paths`.
PathsMissing(spec) == Get(spec, "paths").t \in {"undefined", "null"}

EndpointSummaryOf(path, method, operation) ==
    [ path        |-> path,
      method      |-> toUpperCase(method),
      summary     |-> Get(operation, "summary"),
      description |-> Get(operation, "description"),
      operationId |-> Get(operation, "operationId"),
      tags        |-> Get(operation, "tags") ]

\* The inner loop of extractEndpointSummaries over the entries e of one path item.
summariesOfItem(path, e) ==
    LET F[i \in 0..Len(e)] ==
            IF i = 0 THEN <<>>
            ELSE IF isOpenAPIOperation(e[i][2])
                 THEN Append(F[i-1], EndpointSummaryOf(path, e[i][1], e[i][2]))
                 ELSE F[i-1]
    IN F[Len(e)]

\* The outer loop over the entries of spec.paths.
summariesOfPaths(paths) ==
    LET G[i \in 0..Len(paths)] ==
            IF i = 0 THEN <<>>
            ELSE G[i-1] \o summariesOfItem(paths[i][1], Entries(paths[i][2]))
    IN G[Len(paths)]

extractEndpointSummaries(spec) ==
    IF PathsMissing(spec) THEN Thrown("TypeError")
    ELSE Returned(summariesOfPaths(Entries(Get(spec, "paths"))))

\* endpoint.tags?.[0] || "default"
FirstTag(endpoint) ==
    IF endpoint.tags.t = "array" /\ Len(endpoint.tags.a) > 0 /\ Truthy(endpoint.tags.a[1])
    THEN endpoint.tags.a[1].s
    ELSE "default"

\* groupedByTag[tag].push(endpoint), creating the bucket on first use.
PushGrouped(grouped, tag, endpoint) ==
    IF \E i \in 1..Len(grouped) : grouped[i][1] = tag
    THEN [i \in 1..Len(grouped) |->
            IF grouped[i][1] = tag
            THEN <<tag, Append(grouped[i][2], endpoint)>>
            ELSE grouped[i]]
    ELSE Append(grouped, <<tag, <<endpoint>> >>)

\* endpoints.forEach(...) of createSummary.
groupByTag(endpoints) ==
    LET H[i \in 0..Len(endpoints)] ==
            IF i = 0 THEN <<>>
            ELSE PushGrouped(H[i-1], FirstTag(endpoints[i]), endpoints[i])
    IN H[Len(endpoints)]

\* `!groupedByTag[tag]` is false for a tag that names an inherited member of
\* the object, no bucket is created, and `groupedByTag[tag].push` is not a
\* function: the forEach throws a TypeError.
pushThrows(endpoints) ==
    \E i \in 1..Len(endpoints) : Truthy(Inherited(FirstTag(endpoints[i])))

summaryOf(spec, endpoints) ==
    IF ~endpoints.ok THEN endpoints
    ELSE IF pushThrows(endpoints.v) THEN Thrown("TypeError")
    ELSE Returned([ info           |-> Get(spec, "info"),
                    totalEndpoints |-> Len(endpoints.v),
                    endpointsByTag |-> groupByTag(endpoints.v) ])

createSummary(spec) == summaryOf(spec, extractEndpointSummaries(spec))

\* The record getEndpointDetails returns for an operation.
detailsOf(operation) ==
    IF ~Truthy(operation) THEN Returned(Null)
    ELSE Returned(Obj(<< <<"summary", Get(operation, "summary")>>,
                         <<"description", Get(operation, "description")>>,
                         <<"operationId", Get(operation, "operationId")>>,
                         <<"parameters", Get(operation, "parameters")>>,
                         <<"requestBody", Get(operation, "requestBody")>>,
                         <<"responses", Get(operation, "responses")>>,
                         <<"tags", Get(operation, "tags")>> >>))

\* Variant: the method is looked up as given.
detailsInCaseSensitive(pathItem, method) ==
    IF ~Truthy(pathItem) THEN Returned(Null)
    ELSE detailsOf(Lookup(pathItem, method))

detailsIn(pathItem, method) ==
    IF ~Truthy(pathItem) THEN Returned(Null)
    ELSE detailsOf(Lookup(pathItem, toLowerCase(method)))

getEndpointDetails(spec, path, method) ==
    IF PathsMissing(spec) THEN Thrown("TypeError")
    ELSE detailsIn(Lookup(Get(spec, "paths"), path), method)

(***************************************************************************)
(* Reference resolver.                                                     *)
(***************************************************************************)
MaxResolveDepth == 12   \* nesting of resolveSchemaReferences calls that is followed

RECURSIVE isJsonValue(_)
isJsonValue(value) ==
    IF value.t \in {"null", "string", "number", "boolean"} THEN TRUE
    ELSE IF value.t = "array" THEN \A i \in 1..Len(value.a) : isJsonValue(value.a[i])
    ELSE IF value.t = "object" THEN \A i \in 1..Len(value.e) : isJsonValue(value.e[i][2])
    ELSE FALSE

RefA       == "#/components/schemas/A"
RefB       == "#/components/schemas/B"
RefMissing == "#/components/schemas/Missing"
RefOther   == "#/definitions/A"

\* ref.split("/")
split(ref) ==
    CASE ref = RefA       -> <<"#", "components", "schemas", "A">>
      [] ref = RefB       -> <<"#", "components", "schemas", "B">>
      [] ref = RefMissing -> <<"#", "components", "schemas", "Missing">>
      [] ref = RefOther   -> <<"#", "definitions", "A">>
      [] OTHER            -> <<ref>>

\* `parts[0] === "#" && parts[1] === "components" && parts[2] === "schemas"`
isSchemaRef(parts) ==
    /\ Len(parts) >= 3
    /\ parts[1] = "#"
    /\ parts[2] = "components"
    /\ parts[3] = "schemas"

\* spec.components?.schemas?.[parts[3]]
referencedSchema(spec, parts) ==
    IF Len(parts) >= 4
    THEN Get(Get(Get(spec, "components"), "schemas"), parts[4])
    ELSE Undefined

\* Variant: no reference counts as visited.
visitedHasNever(visited, ref) == FALSE

\* visited.has(ref)
visitedHas(visited, ref) == ref \in visited

\* What one call leaves behind: its return value, the Set `visited` as the
\* call left it (the callee adds to the caller's Set), and whether the
\* nesting went beyond MaxResolveDepth.
Resolved(v, visited) == [v |-> v, visited |-> visited, overflow |-> FALSE]

RECURSIVE resolveSchemaReferences(_, _, _, _)
RECURSIVE resolveEach(_, _, _, _)

\* obj.map(...) and the for-of loop over the entries: the values are resolved
\* in order, each with the Set as the one before left it.
resolveEach(values, spec, visited, depth) ==
    IF values = <<>> THEN [vs |-> <<>>, visited |-> visited, overflow |-> FALSE]
    ELSE LET first == resolveSchemaReferences(Head(values), spec, visited, depth)
             rest  == resolveEach(Tail(values), spec, first.visited, depth)
         IN [ vs       |-> <<first.v>> \o rest.vs,
              visited  |-> rest.visited,
              overflow |-> first.overflow \/ rest.overflow ]

\* The `$ref` branch.
resolveRef(obj, ref, spec, visited, depth) ==
    IF visitedHas(visited, ref)
    THEN Resolved(Obj(<< <<"$ref", Str(ref)>> >>), visited)
    ELSE IF isSchemaRef(split(ref)) /\ Truthy(referencedSchema(spec, split(ref)))
    THEN resolveSchemaReferences(referencedSchema(spec, split(ref)), spec,
                                 visited \cup {ref}, depth + 1)
    ELSE Resolved(obj, visited \cup {ref})

\* The entries whose value passes isJsonValue, resolved key by key.
resolveEntries(kept, spec, visited, depth) ==
    LET r == resolveEach([i \in 1..Len(kept) |-> kept[i][2]], spec, visited, depth + 1)
    IN [ v        |-> Obj([i \in 1..Len(kept) |-> <<kept[i][1], r.vs[i]>>]),
         visited  |-> r.visited,
         overflow |-> r.overflow ]

resolveItems(items, spec, visited, depth) ==
    LET r == resolveEach(items, spec, visited, depth + 1)
    IN [v |-> Arr(r.vs), visited |-> r.visited, overflow |-> r.overflow]

resolveSchemaReferences(obj, spec, visited, depth) ==
    IF depth > MaxResolveDepth
    THEN [v |-> Undefined, visited |-> visited, overflow |-> TRUE]
    ELSE IF obj.t \notin {"object", "array"} THEN Resolved(obj, visited)
    ELSE IF obj.t = "array" THEN resolveItems(obj.a, spec, visited, depth)
    ELSE IF HasKey(obj, "$ref")
    THEN resolveRef(obj, Get(obj, "$ref").s, spec, visited, depth)
    ELSE resolveEntries(SelectSeq(obj.e, LAMBDA x : isJsonValue(x[2])),
                        spec, visited, depth)

\* A top-level call: `visited` defaults to a new Set.
resolve(node, spec) == resolveSchemaReferences(node, spec, {}, 1)

(***************************************************************************)
(* Requests and results.                                                   *)
(***************************************************************************)
\* String(v) / template interpolation.
StringOf(v) ==
    CASE v.t = "string"  -> v.s
      [] v.t = "number"  -> ToString(v.n)
      [] v.t = "boolean" -> IF v.b THEN "true" ELSE "false"
      [] v.t = "object"  -> "[object Object]"
      [] OTHER           -> v.t

McpError(code, message) == [kind |-> "McpError", code |-> code, message |-> message]
JsError(name)           == [kind |-> "Error", name |-> name]
Content(text)           == [kind |-> "content", text |-> text]
Messages(text)          == [kind |-> "messages", text |-> text]

IsObject(args) == args.t \in {"object", "array"}
IsString(v)    == v.t = "string"

isListAllEndpointsArgs(args) == IsObject(args)

isGetApiSpecsArgs(args) ==
    /\ IsObject(args)
    /\ HasKey(args, "path")
    /\ HasKey(args, "method")
    /\ IsString(Get(args, "path"))
    /\ IsString(Get(args, "method"))

isInvokeApiEndpointArgs(args) ==
    /\ IsObject(args)
    /\ HasKey(args, "path")
    /\ HasKey(args, "method")
    /\ IsString(Get(args, "path"))
    /\ IsString(Get(args, "method"))

isFindEndpointPromptArgs(args) ==
    IsObject(args) /\ HasKey(args, "goal") /\ IsString(Get(args, "goal"))

isTestEndpointPromptArgs(args) ==
    /\ IsObject(args)
    /\ HasKey(args, "path")
    /\ HasKey(args, "method")
    /\ IsString(Get(args, "path"))
    /\ IsString(Get(args, "method"))

isAnalyzeResponsePromptArgs(args) ==
    /\ IsObject(args)
    /\ HasKey(args, "response_data")
    /\ HasKey(args, "endpoint_path")
    /\ HasKey(args, "endpoint_method")
    /\ IsString(Get(args, "response_data"))
    /\ IsString(Get(args, "endpoint_path"))
    /\ IsString(Get(args, "endpoint_method"))

PM(path, method) == Obj(<< <<"path", Str(path)>>, <<"method", Str(method)>> >>)

\* The calls the host may make.
Requests ==
    [kind : {"tool"}, name : {"list-all-endpoints"},
     args : {Undefined, Obj(<<>>), Obj(<< <<"filterByTag", Str("Customer")>> >>)}]
    \cup [kind : {"tool"}, name : {"get-api-specs"},
          args : {PM("/customers", "post"), PM("/nonexistent", "GET")}]
    \cup [kind : {"tool"}, name : {"invoke-api-endpoint"},
          args : { PM("/customers", "post"), PM("/customers", "DELETE"),
                   PM("/nonexistent", "GET"),
                   Obj(<< <<"path", Str("/customers")>>, <<"method", Str("GET")>>,
                          <<"parameters", Obj(<< <<"limit", Num(10)>>,
                                                 <<"cursor", Null>>,
                                                 <<"offset", Num(0)>> >>)>> >>) }]
    \cup [kind : {"tool"}, name : {"no-such-tool"}, args : {Obj(<<>>)}]
    \cup [kind : {"prompt"}, name : {"find-endpoint"},
          args : {Obj(<< <<"goal", Str("create a customer")>> >>)}]
    \cup [kind : {"prompt"}, name : {"test-endpoint"},
          args : {PM("/customers", "GET")}]
    \cup [kind : {"prompt"}, name : {"analyze-response"},
          args : {Obj(<< <<"response_data", Str("{}")>>,
                         <<"endpoint_path", Str("/customers")>>,
                         <<"endpoint_method", Str("GET")>> >>)}]

(***************************************************************************)
(* Dispatchers and handlers, cut at their awaits.  A segment ends with     *)
(*   [step |-> "throw",   error  |-> e]   the call throws e                *)
(*   [step |-> "return",  result |-> r]   the call returns r               *)
(*   [step |-> "load"]                    it calls loadOpenApiSpec         *)
(*   [step |-> "request", ...]            it calls axios(requestConfig)    *)
(***************************************************************************)
Throw(e)   == [step |-> "throw", error |-> e]
Return(r)  == [step |-> "return", result |-> r]
LoadSpec   == [step |-> "load"]

\* Variant: read-only mode is not checked.
invokeConfigCheckNoReadOnly(cfg) ==
    IF ~Truthy(cfg.apiKey)
    THEN Throw(McpError("InvalidRequest", "API key is required"))
    ELSE LoadSpec

\* Variant: only an unset key is refused, an empty one passes.
invokeConfigCheckUnsetKey(cfg) ==
    IF cfg.readOnlyMode
    THEN Throw(McpError("InvalidRequest", "API calls are disabled in read-only mode"))
    ELSE IF cfg.apiKey.t = "undefined"
    THEN Throw(McpError("InvalidRequest", "API key is required"))
    ELSE LoadSpec

\* Variant: neither configuration check is made before the spec is loaded.
invokeConfigCheckNone(cfg) == LoadSpec

\* The two precondition checks handleInvokeApiEndpoint makes before it
\* loads the spec.
invokeConfigCheck(cfg) ==
    IF cfg.readOnlyMode
    THEN Throw(McpError("InvalidRequest", "API calls are disabled in read-only mode"))
    ELSE IF ~Truthy(cfg.apiKey)
    THEN Throw(McpError("InvalidRequest", "API key is required"))
    ELSE LoadSpec

\* From the dispatcher's switch to the handler's first await.
beforeLoad(cfg, req) ==
    LET invalid == Throw(McpError("InvalidParams", "Invalid arguments")) IN
    IF req.kind = "tool"
    THEN CASE req.name = "list-all-endpoints" ->
                IF ~isListAllEndpointsArgs(req.args) THEN invalid ELSE LoadSpec
           [] req.name = "get-api-specs" ->
                IF ~isGetApiSpecsArgs(req.args) THEN invalid ELSE LoadSpec
           [] req.name = "invoke-api-endpoint" ->
                IF ~isInvokeApiEndpointArgs(req.args) THEN invalid
                ELSE invokeConfigCheck(cfg)
           [] OTHER -> Throw(McpError("MethodNotFound", "Unknown tool"))
    ELSE CASE req.name = "find-endpoint" ->
                IF ~isFindEndpointPromptArgs(req.args) THEN invalid ELSE LoadSpec
           [] req.name = "test-endpoint" ->
                IF ~isTestEndpointPromptArgs(req.args) THEN invalid ELSE LoadSpec
           [] req.name = "analyze-response" ->
                IF ~isAnalyzeResponsePromptArgs(req.args) THEN invalid
                ELSE Return(Messages([prompt |-> "analyze-response"]))
           [] OTHER -> Throw(McpError("MethodNotFound", "Unknown prompt"))

\* result.endpointsByTag[tag] as the list of the entries kept (one or none).
bucketOf(byTag, tag) ==
    IF \E i \in 1..Len(byTag) : byTag[i][1] = tag
    THEN << byTag[CHOOSE i \in 1..Len(byTag) : byTag[i][1] = tag] >>
    ELSE <<>>

filteredSummary(info, bucket) ==
    [ info           |-> info,
      totalEndpoints |-> IF bucket = <<>> THEN 0 ELSE Len(bucket[1][2]),
      endpointsByTag |-> bucket ]

\* The filter found no own bucket but an inherited member of endpointsByTag:
\* totalEndpoints is the member's `length`, and JSON.stringify leaves the
\* function-valued property out of the text.
inheritedSummary(info, member) ==
    [ info           |-> info,
      totalEndpoints |-> member.length,
      endpointsByTag |-> <<>> ]

\* "Filter by tag if specified" and the return of handleListAllEndpoints.
listResult(result, tag) ==
    IF ~result.ok THEN Throw(JsError(result.error))
    ELSE IF ~Truthy(tag) THEN Return(Content(result.v))
    ELSE IF bucketOf(result.v.endpointsByTag, tag.s) = <<>> /\ Truthy(Inherited(tag.s))
    THEN Return(Content(inheritedSummary(result.v.info, Inherited(tag.s))))
    ELSE Return(Content(filteredSummary(result.v.info,
                                        bucketOf(result.v.endpointsByTag, tag.s))))

\* handleListAllEndpoints after `await this.loadOpenApiSpec()`.
handleListAllEndpoints(args, spec) ==
    listResult(createSummary(spec), Get(args, "filterByTag"))

\* `if (!endpointDetails) throw new McpError(InvalidRequest, "Endpoint not found")`
specsResult(endpointDetails) ==
    IF ~endpointDetails.ok THEN Throw(JsError(endpointDetails.error))
    ELSE IF ~Truthy(endpointDetails.v)
    THEN Throw(McpError("InvalidRequest", "Endpoint not found"))
    ELSE Return(Content(endpointDetails.v))

\* handleGetApiSpecs after `await this.loadOpenApiSpec()`.
handleGetApiSpecs(args, spec) ==
    specsResult(getEndpointDetails(spec, Get(args, "path").s, Get(args, "method").s))

\* The URL handleInvokeApiEndpoint builds, as the list of its pieces.
\* Keys and values of the model are unreserved characters, which
\* URLSearchParams leaves as they are.
queryStringOf(e) ==
    LET Q[i \in 0..Len(e)] ==
            IF i = 0 THEN <<>>
            ELSE IF e[i][2].t \in {"undefined", "null"} THEN Q[i-1]
            ELSE Q[i-1] \o (IF Q[i-1] = <<>> THEN <<>> ELSE <<"&">>)
                        \o <<e[i][1], "=", StringOf(e[i][2])>>
    IN Q[Len(e)]

\* Variant: the "?" is appended whatever the query string is.
withQueryAlways(url, queryString) == url \o <<"?">> \o queryString

withQuery(url, queryString) ==
    IF queryString # <<>> THEN url \o <<"?">> \o queryString ELSE url

requestUrl(cfg, args) ==
    withQuery(<<StringOf(cfg.baseUrl), Get(args, "path").s>>,
              queryStringOf(Entries(Get(args, "parameters"))))

\* { "X-API-key": apiKey, "Content-Type": "application/json", ...headers }
\* m[k] = v on an object's entries.
Put(m, k, v) ==
    IF \E i \in 1..Len(m) : m[i][1] = k
    THEN [i \in 1..Len(m) |-> IF m[i][1] = k THEN <<k, v>> ELSE m[i]]
    ELSE Append(m, <<k, v>>)

\* { ...base, ...h }
spread(base, h) ==
    LET R[i \in 0..Len(h)] == IF i = 0 THEN base ELSE Put(R[i-1], h[i][1], h[i][2])
    IN R[Len(h)]

\* Variant: the defaults are written after the caller's headers.
requestHeadersDefaultsLast(cfg, args) ==
    spread(Entries(Get(args, "headers")),
           << <<"X-API-key", cfg.apiKey>>, <<"Content-Type", Str("application/json")>> >>)

requestHeaders(cfg, args) ==
    spread(<< <<"X-API-key", cfg.apiKey>>, <<"Content-Type", Str("application/json")>> >>,
           Entries(Get(args, "headers")))

requestConfig(cfg, args) ==
    [ method  |-> Get(args, "method").s,
      url     |-> requestUrl(cfg, args),
      headers |-> requestHeaders(cfg, args),
      data    |-> Get(args, "body"),
      timeout |-> 30000 ]

\* Variant: the request is sent whether or not the endpoint was found.
invokeLookupSkipped(cfg, args, endpointDetails) ==
    IF ~endpointDetails.ok THEN Throw(JsError(endpointDetails.error))
    ELSE [ step            |-> "request",
           request         |-> requestConfig(cfg, args),
           endpointDetails |-> endpointDetails.v ]

\* The third precondition, then the request is built and sent.
invokeLookup(cfg, args, endpointDetails) ==
    IF ~endpointDetails.ok THEN Throw(JsError(endpointDetails.error))
    ELSE IF ~Truthy(endpointDetails.v)
    THEN Throw(McpError("InvalidRequest", "Endpoint not found"))
    ELSE [ step            |-> "request",
           request         |-> requestConfig(cfg, args),
           endpointDetails |-> endpointDetails.v ]

\* handleInvokeApiEndpoint from `await this.loadOpenApiSpec()` to `await axios(...)`.
handleInvokeApiEndpoint(cfg, args, spec) ==
    invokeLookup(cfg, args,
                 getEndpointDetails(spec, Get(args, "path").s, Get(args, "method").s))

\* handleFindEndpointPrompt / handleTestEndpointPrompt after the spec is loaded.
findEndpointText(summary) ==
    IF ~summary.ok THEN Throw(JsError(summary.error))
    ELSE Return(Messages([ prompt     |-> "find-endpoint",
                           categories |-> Len(summary.v.endpointsByTag) ]))

handleFindEndpointPrompt(args, spec) == findEndpointText(createSummary(spec))

testEndpointText(endpointDetails) ==
    IF ~endpointDetails.ok THEN Throw(JsError(endpointDetails.error))
    ELSE Return(Messages([ prompt |-> "test-endpoint",
                           found  |-> Truthy(endpointDetails.v) ]))

handleTestEndpointPrompt(args, spec) ==
    testEndpointText(getEndpointDetails(spec, Get(args, "path").s, Get(args, "method").s))

\* The handler's segment that follows `await loadOpenApiSpec()`.
\* Variant: a filtered listing deletes the paths of the spec it was given.
specLeftByFiltering(req, spec) ==
    IF /\ req.name = "list-all-endpoints"
       /\ Truthy(Get(req.args, "filterByTag"))
       /\ spec.t = "object"
    THEN [spec EXCEPT !.e = [i \in 1..Len(spec.e) |->
                                IF spec.e[i][1] = "paths" THEN <<"paths", Obj(<<>>)>>
                                ELSE spec.e[i]]]
    ELSE spec

\* The object loadOpenApiSpec returned, as the handler of req leaves it: the
\* handlers read it and build new objects (the filter of
\* handleListAllEndpoints assigns to the summary createSummary made), none
\* assigns to a property of the spec or of an object reached from it.
specLeftBy(req, spec) == spec

afterLoad(cfg, req, spec) ==
    CASE req.name = "list-all-endpoints"  -> handleListAllEndpoints(req.args, spec)
      [] req.name = "get-api-specs"       -> handleGetApiSpecs(req.args, spec)
      [] req.name = "invoke-api-endpoint" -> handleInvokeApiEndpoint(cfg, req.args, spec)
      [] req.name = "find-endpoint"       -> handleFindEndpointPrompt(req.args, spec)
      [] OTHER                            -> handleTestEndpointPrompt(req.args, spec)

\* What axios(requestConfig) may do: resolve with a 2xx response, reject with
\* an AxiosError that carries a response (error status) or none (network
\* fault, timeout), or anything else thrown inside the try block.
TransportResults ==
    { Returned([status |-> 200, statusText |-> "OK"]),
      [ok |-> FALSE, axios |-> TRUE, message |-> "Request failed with status code 404",
       response |-> [status |-> 404, statusText |-> "Not Found"]],
      [ok |-> FALSE, axios |-> TRUE, message |-> "timeout of 30000ms exceeded",
       code |-> "ECONNABORTED"],
      [ok |-> FALSE, axios |-> FALSE, message |-> "Invalid URL"] }

\* handleInvokeApiEndpoint after `await axios(requestConfig)`: the rest of the
\* try block and the catch block.
formatApiResponse(status, endpointDetails, url, requestInfo) ==
    [ format    |-> "formatApiResponse",
      request   |-> requestInfo,
      operation |-> Or(Get(endpointDetails, "summary"), Str("N/A")),
      url       |-> url,
      status    |-> status ]

formatApiError(error, detail, requestInfo, url) ==
    [ format  |-> "formatApiError",
      request |-> requestInfo,
      url     |-> url,
      error   |-> error,
      detail  |-> detail ]

\* Variant: an error that is no AxiosError is thrown on.
invokeCatchRethrow(requestInfo, url, transport) ==
    IF transport.axios
    THEN Return(Content(formatApiError(transport.message,
                                       IF "response" \in DOMAIN transport
                                       THEN "response" ELSE "code",
                                       requestInfo, url)))
    ELSE Throw(JsError("Error"))

\* Variant: a request that got no response is sent again.
invokeCatchRetry(requestInfo, url, transport) ==
    IF transport.axios /\ "response" \notin DOMAIN transport
    THEN [ step            |-> "request",
           request         |-> [method |-> requestInfo.method, url |-> url,
                                headers |-> <<>>, data |-> Undefined, timeout |-> 30000],
           endpointDetails |-> Undefined ]
    ELSE Return(Content(formatApiError(transport.message,
                                       IF transport.axios THEN "response" ELSE "none",
                                       requestInfo, url)))

\* The catch block: an AxiosError keeps its response or code, any other
\* error only its message.
invokeCatch(requestInfo, url, transport) ==
    IF transport.axios
    THEN Return(Content(formatApiError(transport.message,
                                       IF "response" \in DOMAIN transport
                                       THEN "response" ELSE "code",
                                       requestInfo, url)))
    ELSE Return(Content(formatApiError(transport.message, "none", requestInfo, url)))

invokeResult(cfg, args, request, endpointDetails, transport) ==
    IF transport.ok
    THEN Return(Content(formatApiResponse(
                    transport.v.status, endpointDetails, request.url,
                    [path |-> Get(args, "path").s, method |-> Get(args, "method").s])))
    ELSE invokeCatch([path |-> Get(args, "path").s, method |-> Get(args, "method").s],
                     <<StringOf(cfg.baseUrl), Get(args, "path").s>>, transport)

\* The catch of both dispatchers: an McpError passes, anything else is wrapped.
dispatchCatch(req, error) ==
    IF error.kind = "McpError" THEN error
    ELSE McpError("InternalError",
                  IF req.kind = "tool" THEN "Tool execution failed"
                  ELSE "Prompt execution failed")

(***************************************************************************)
(* The state machine.                                                      *)
(*                                                                         *)
(* A call suspends at two I/O boundaries only: the GET of the spec URL and *)
(* the outbound API request.  An `await` of a promise that is already      *)
(* settled resumes in the same macrotask, before any other I/O completion  *)
(* or incoming call is handled, so such an await does not end a step.      *)
(***************************************************************************)
NoRequest == [kind |-> "", name |-> "", args |-> Undefined]
NoLoad    == [n |-> 0]
NoOutcome == [kind |-> "none"]

\* A call slot: pc is where the call stands,
\*   idle       no call
\*   fetching   inside loadOpenApiSpec, at `await axios.get(specUrl)`
\*   sending    at `await axios(requestConfig)`
\*   done       the call has returned or thrown `outcome`
\* spec is what loadOpenApiSpec returned to the handler, io lists the I/O of
\* this call in order (fetch, readFile, parse, request), load is the load
\* attempt this call made, if any.
\* No function has been applied.
NoProbe == [op |-> "none"]

IdleCall ==
    [ pc |-> "idle", req |-> NoRequest, spec |-> Undefined, request |-> Undefined,
      endpointDetails |-> Undefined, outcome |-> NoOutcome, io |-> <<>>, load |-> NoLoad ]

Init ==
    /\ overlapping = TRUE
    /\ env \in EnvSettings
    /\ config = loadConfig(env)
    /\ openApiSpec = Null
    /\ calls = [c \in CallIds |-> IdleCall]
    /\ loadLog = <<>>
    /\ started = 0
    /\ probe = NoProbe

\* Load attempts begun so far.
LoadsBegun == Len(loadLog) + Cardinality({c \in CallIds : calls[c].pc = "fetching"})

\* The host hands a call to the first free slot.
Accept(c) ==
    /\ calls[c].pc = "idle"
    /\ \A d \in CallIds : d < c => calls[d].pc # "idle"
    /\ overlapping \/ \A d \in CallIds : calls[d].pc = "idle"
    /\ started < MaxCalls
    /\ started' = started + 1

Finished(call, segment) ==
    [call EXCEPT !.pc = "done",
                 !.outcome = IF segment.step = "throw"
                             THEN dispatchCatch(call.req, segment.error)
                             ELSE segment.result]

Continued(call, segment) ==
    IF segment.step = "request"
    THEN [call EXCEPT !.pc = "sending",
                      !.request = segment.request,
                      !.endpointDetails = segment.endpointDetails,
                      !.io = Append(@, "request")]
    ELSE Finished(call, segment)

\* The handler's segment that starts when loadOpenApiSpec has returned `spec`.
Resumed(call, spec) ==
    Continued([call EXCEPT !.spec = spec], afterLoad(config, call.req, spec))

\* A call that ends before it asks for the spec: bad arguments, unknown
\* name, a configuration rejection, or a prompt that needs no spec.
Ended(c, req, segment) ==
    /\ segment.step \in {"throw", "return"}
    /\ calls' = [calls EXCEPT ![c] = Finished([IdleCall EXCEPT !.req = req], segment)]

CallEnds(c, req) ==
    /\ Accept(c)
    /\ Ended(c, req, beforeLoad(config, req))
    /\ UNCHANGED <<env, overlapping, config, openApiSpec, loadLog, probe>>

\* loadOpenApiSpec finds the cache populated and the handler goes on.
CallCached(c, req) ==
    /\ Accept(c)
    /\ beforeLoad(config, req).step = "load"
    /\ cacheHit(openApiSpec)
    /\ calls' = [calls EXCEPT ![c] = Resumed([IdleCall EXCEPT !.req = req], openApiSpec)]
    /\ openApiSpec' = specLeftBy(req, openApiSpec)
    /\ UNCHANGED <<env, overlapping, config, loadLog, probe>>

\* loadOpenApiSpec finds the cache empty and issues the GET of the spec URL.
CallFetch(c, req) ==
    /\ Accept(c)
    /\ beforeLoad(config, req).step = "load"
    /\ ~cacheHit(openApiSpec)
    /\ UrlConfigured(config)
    /\ LoadsBegun < MaxLoads
    /\ calls' = [calls EXCEPT ![c] =
                    [IdleCall EXCEPT !.req = req, !.pc = "fetching", !.io = <<"fetch">>]]
    /\ UNCHANGED <<env, overlapping, config, openApiSpec, loadLog, probe>>

\* The rest of a load attempt, from the content step to the return or
\* throw, and the handler's next segment; the cell holds the object the
\* handler was given when the attempt assigned it.
Loaded(c, call, r) ==
    /\ openApiSpec' = IF r.ok /\ cacheAfterLoad(openApiSpec, r) = r.v
                      THEN specLeftBy(call.req, r.v)
                      ELSE cacheAfterLoad(openApiSpec, r)
    /\ loadLog' = Append(loadLog, r)
    /\ calls' = [calls EXCEPT ![c] =
                    IF r.ok
                    THEN Resumed(call, r.v)
                    ELSE Finished(call, Throw(McpError("InternalError",
                                                       "Failed to load OpenAPI spec")))]

Attempted(call, fetch, file, r, events) ==
    [call EXCEPT !.load = [n |-> Len(loadLog) + 1, fetched |-> fetch.ok,
                           file |-> file, result |-> r],
                 !.io = @ \o events]

CompleteLoad(c, call, fetch, file) ==
    Loaded(c,
           Attempted(call, fetch, file,
                     loadAttempt(config, fetch, file, Len(loadLog) + 1),
                     IF UrlConfigured(config)
                     THEN Tail(loadEvents(config, fetch, file))
                     ELSE loadEvents(config, fetch, file)),
           loadAttempt(config, fetch, file, Len(loadLog) + 1))

\* loadOpenApiSpec with no spec URL configured: the file is read and parsed
\* in the call's first segment.
CallReadFile(c, req, file) ==
    /\ Accept(c)
    /\ beforeLoad(config, req).step = "load"
    /\ ~cacheHit(openApiSpec)
    /\ ~UrlConfigured(config)
    /\ LoadsBegun < MaxLoads
    /\ CompleteLoad(c, [IdleCall EXCEPT !.req = req], Thrown("no url"), file)
    /\ UNCHANGED <<env, overlapping, config, probe>>

\* The GET of the spec URL settles.
FetchSettled(c, fetch, file) ==
    /\ calls[c].pc = "fetching"
    /\ CompleteLoad(c, calls[c], fetch, file)
    /\ UNCHANGED <<env, overlapping, config, started, probe>>

\* The outbound API request settles.
RequestSettled(c, transport) ==
    LET call == calls[c] IN
    /\ call.pc = "sending"
    /\ calls' = [calls EXCEPT ![c] =
                    Continued(call, invokeResult(config, call.req.args, call.request,
                                                 call.endpointDetails, transport))]
    /\ UNCHANGED <<env, overlapping, config, openApiSpec, loadLog, started, probe>>

\* The host takes the result.
Respond(c) ==
    /\ calls[c].pc = "done"
    /\ calls' = [calls EXCEPT ![c] = IdleCall]
    /\ UNCHANGED <<env, overlapping, config, openApiSpec, loadLog, started, probe>>

\* The file is read only when the fetch failed.
FileResultsAfter(fetch) == IF fetch.ok THEN {Thrown("not read")} ELSE FileResults

Progress ==
    \E c \in CallIds :
        \/ \E fetch \in FetchResults : \E file \in FileResultsAfter(fetch) :
              FetchSettled(c, fetch, file)
        \/ \E transport \in TransportResults : RequestSettled(c, transport)
        \/ Respond(c)

NewCall ==
    \E c \in CallIds : \E req \in Requests :
        \/ CallEnds(c, req)
        \/ CallCached(c, req)
        \/ CallFetch(c, req)
        \/ \E file \in FileResults : CallReadFile(c, req, file)

Next == NewCall \/ Progress

Spec == Init /\ [][Next]_vars

\* Calls that do not overlap: a call is accepted only when no other is in flight.
SeqInit ==
    /\ overlapping = FALSE
    /\ env \in EnvSettings
    /\ config = loadConfig(env)
    /\ openApiSpec = Null
    /\ calls = [c \in CallIds |-> IdleCall]
    /\ loadLog = <<>>
    /\ started = 0
    /\ probe = NoProbe

SeqSpec == SeqInit /\ [][Next]_vars

(***************************************************************************)
(* The synchronous functions, applied on their own to inputs drawn from    *)
(* small sets.  One step applies one function and records the result.      *)
(***************************************************************************)
ProbeInit ==
    /\ overlapping = FALSE
    /\ env \in EnvSettings
    /\ \A k \in DOMAIN env : env[k] = Undefined
    /\ config = loadConfig(env)
    /\ openApiSpec = Null
    /\ calls = [c \in CallIds |-> IdleCall]
    /\ loadLog = <<>>
    /\ started = 0
    /\ probe = NoProbe

\* The variables of the server, which a function applied on its own leaves alone.
server == <<env, overlapping, config, openApiSpec, calls, loadLog, started>>

Ref(ref) == Obj(<< <<"$ref", Str(ref)>> >>)

StringSchema == Obj(<< <<"type", Str("string")>> >>)

SpecWithSchemas(schemas) ==
    Obj(<< <<"openapi", Str("3.0.0")>>,
           <<"paths", Obj(<<>>)>>,
           <<"components", Obj(<< <<"schemas", Obj(schemas)>> >>)>> >>)

\* A has no reference; A refers to B; A refers to A; A and B refer to each other.
PlainSchemas  == SpecWithSchemas(<< <<"A", StringSchema>> >>)
ChainSchemas  == SpecWithSchemas(<< <<"A", Obj(<< <<"items", Ref(RefB)>> >>)>>,
                                    <<"B", StringSchema>> >>)
SelfSchemas   == SpecWithSchemas(<< <<"A", Obj(<< <<"next", Ref(RefA)>> >>)>> >>)
MutualSchemas == SpecWithSchemas(<< <<"A", Obj(<< <<"items", Ref(RefB)>> >>)>>,
                                    <<"B", Obj(<< <<"items", Ref(RefA)>> >>)>> >>)

ResolverSpecs == {PlainSchemas, ChainSchemas, SelfSchemas, MutualSchemas}

NodeLeaves ==
    {Str("x"), Null, StringSchema, Ref(RefA), Ref(RefB), Ref(RefMissing), Ref(RefOther)}

\* A leaf, an object with two properties, or a list of two items.
ResolverNodes ==
    NodeLeaves
    \cup {Obj(<< <<"a", x>>, <<"b", y>> >>) : x \in NodeLeaves, y \in NodeLeaves}
    \cup {Arr(<<x, y>>) : x \in NodeLeaves, y \in NodeLeaves}

\* Entries a path item may hold: operations with one tag, with two tags and
\* with none, an operation that has `responses` only, an object with none of
\* the four fields, and the path-level parameter list.
OpSearch ==
    Obj(<< <<"summary", Str("Search")>>,
           <<"operationId", Str("search")>>,
           <<"tags", Arr(<<Str("Addresses"), Str("Customer")>>)>> >>)

OpUntagged == Obj(<< <<"description", Str("Health check")>> >>)

\* An operation whose first tag is the name of an Object.prototype member.
OpConstructorTag ==
    Obj(<< <<"summary", Str("Build")>>, <<"tags", Arr(<<Str("constructor")>>)>> >>)

ItemEntries ==
    { <<"get", OpListCustomers>>, <<"post", OpCreateAddress>>, <<"put", OpSearch>>,
      <<"patch", OpUntagged>>, <<"delete", Obj(<< <<"responses", Obj(<<>>)>> >>)>>,
      <<"head", OpConstructorTag>>,
      <<"post", Obj(<< <<"tags", Arr(<<Str("Customer")>>)>> >>)>>,
      <<"parameters", Arr(<< Obj(<< <<"name", Str("id")>>, <<"in", Str("path")>> >>) >>)>> }

\* Path items of one or two entries with different keys.
PathItems ==
    {Obj(<<x>>) : x \in ItemEntries}
    \cup UNION {{Obj(<<x, y>>) : y \in {z \in ItemEntries : z[1] # x[1]}} : x \in ItemEntries}

DocWithPaths(paths) ==
    Obj(<< <<"info", Obj(<< <<"title", Str("Iron API")>> >>)>>, <<"paths", Obj(paths)>> >>)

\* Documents with no path, with one path, and with /customers followed by
\* an /addresses of one entry.
IndexDocs ==
    {DocWithPaths(<<>>)}
    \cup {DocWithPaths(<< <<"/customers", item>> >>) : item \in PathItems}
    \cup {DocWithPaths(<< <<"/customers", item>>, <<"/addresses", Obj(<<x>>)>> >>) :
              item \in PathItems, x \in {<<"get", OpListCustomers>>, <<"post", OpCreateAddress>>}}

LookupPaths == {"/customers", "/addresses", "/nonexistent"}

LookupMethods ==
    {"GET", "get", "Get", "POST", "post", "Post", "PUT", "PATCH", "DELETE", "HEAD",
     "PARAMETERS",
     "constructor"}

FilterTags == {"Customer", "Addresses", "default", "Orders", "", "constructor", "toString"}

ParameterKeys == {"limit", "cursor", "2", "10"}

ParameterValues == {Num(10), Num(0), Bool(FALSE), Str("usd"), Null, Undefined}

ParameterEntries == {<<k, v>> : k \in ParameterKeys, v \in ParameterValues}

\* `parameters` absent, empty, or of one or two properties.
ParameterObjects ==
    {Undefined, Obj(<<>>)}
    \cup {Obj(<<x>>) : x \in ParameterEntries}
    \cup UNION {{Obj(<<x, y>>) : y \in {z \in ParameterEntries : z[1] # x[1]}} :
                   x \in ParameterEntries}

\* "Build the full URL" and "Add query parameters" of handleInvokeApiEndpoint.
BuildUrl(parameters) ==
    /\ probe = NoProbe
    /\ probe' = [op |-> "url", parameters |-> parameters,
                 url |-> requestUrl(config,
                                    Obj(<< <<"path", Str("/customers")>>,
                                           <<"method", Str("GET")>>,
                                           <<"parameters", parameters>> >>))]
    /\ UNCHANGED server

\* Values isOpenAPIOperation may be asked about.
GuardValues ==
    {Null, Undefined, Str("summary"), Num(0), Bool(TRUE), Arr(<<>>), Arr(<<Str("summary")>>),
     Obj(<<>>), Obj(<< <<"notAnOperation", Bool(TRUE)>> >>),
     Obj(<< <<"tags", Arr(<<Str("Customer")>>)>> >>),
     Obj(<< <<"responses", Obj(<<>>)>> >>), Obj(<< <<"responses", Null>> >>),
     Obj(<< <<"summary", Str("")>> >>), Obj(<< <<"description", Undefined>> >>),
     Obj(<< <<"operationId", Num(0)>> >>), OpListCustomers, OpUntagged}

\* isOpenAPIOperation(value)
RecogniseOperation(value) ==
    /\ probe = NoProbe
    /\ probe' = [op |-> "guard", value |-> value, result |-> isOpenAPIOperation(value)]
    /\ UNCHANGED server

HeaderEntries ==
    {<<k, Str(v)>> : k \in {"X-API-key", "Content-Type", "x-api-key", "Accept"},
                     v \in {"caller-key", "text/plain"}}

\* `headers` absent, empty, or of one or two properties.
HeaderObjects ==
    {Undefined, Obj(<<>>)}
    \cup {Obj(<<x>>) : x \in HeaderEntries}
    \cup UNION {{Obj(<<x, y>>) : y \in {z \in HeaderEntries : z[1] # x[1]}} :
                   x \in HeaderEntries}

\* "Prepare headers" of handleInvokeApiEndpoint.
BuildHeaders(headers) ==
    /\ probe = NoProbe
    /\ probe' = [op |-> "headers", headers |-> headers,
                 apiKey |-> Str("key-1"),
                 sent |-> requestHeaders([config EXCEPT !.apiKey = Str("key-1")],
                                         Obj(<< <<"path", Str("/customers")>>,
                                                <<"method", Str("GET")>>,
                                                <<"headers", headers>> >>))]
    /\ UNCHANGED server

\* Settings of the environment, the URL overrides included.
ConfigEnvs ==
    [ IRON_ENVIRONMENT      : {Undefined, Str(""), Str("production"), Str("sandbox"),
                               Str("staging")},
      IRON_OPENAPI_SPEC_URL : {Undefined, Str(""), Str("https://example.test/spec")},
      IRON_LOCAL_SPEC_PATH  : {Undefined},
      IRON_API_KEY          : {Undefined, Str("key-1")},
      IRON_READ_ONLY_MODE   : {Undefined, Str("true"), Str("false")},
      IRON_BASE_URL         : {Undefined, Str(""), Str("https://example.test/api")} ]

\* loadConfig() under the environment e.
ReadConfig(e) ==
    /\ probe = NoProbe
    /\ probe' = [op |-> "config", env |-> e, config |-> loadConfig(e)]
    /\ UNCHANGED server

\* Calls with arguments of the right and of a wrong shape.
WithField(args, key, value) == Obj(Append(args.e, <<key, value>>))

ShapeRequests ==
    [kind : {"tool"}, name : {"list-all-endpoints"},
     args : {Obj(<<>>), Null, Str("Customer"),
             Obj(<< <<"filterByTag", Str("Customer")>> >>),
             Obj(<< <<"filterByTag", Num(42)>> >>)}]
    \cup [kind : {"tool"}, name : {"get-api-specs", "invoke-api-endpoint"},
          args : {PM("/customers", "GET"), Null,
                  Obj(<< <<"path", Str("/customers")>> >>),
                  Obj(<< <<"path", Str("/customers")>>, <<"method", Num(1)>> >>),
                  WithField(PM("/customers", "GET"), "parameters", Str("limit=10")),
                  WithField(PM("/customers", "GET"), "headers", Num(1)),
                  WithField(PM("/customers", "GET"), "body", Str("{}")),
                  WithField(PM("/customers", "GET"), "parameters",
                            Obj(<< <<"limit", Num(10)>> >>))}]
    \cup [kind : {"prompt"}, name : {"find-endpoint"},
          args : {Obj(<< <<"goal", Str("create a customer")>> >>), Obj(<<>>),
                  Obj(<< <<"goal", Num(1)>> >>)}]
    \cup [kind : {"prompt"}, name : {"test-endpoint"},
          args : {PM("/customers", "GET"), Obj(<< <<"method", Str("GET")>> >>),
                  WithField(PM("/customers", "GET"), "goal", Num(1))}]
    \cup [kind : {"prompt"}, name : {"analyze-response"},
          args : {Obj(<< <<"response_data", Str("{}")>>,
                         <<"endpoint_path", Str("/customers")>>,
                         <<"endpoint_method", Str("GET")>> >>),
                  Obj(<< <<"response_data", Obj(<<>>)>>,
                         <<"endpoint_path", Str("/customers")>>,
                         <<"endpoint_method", Str("GET")>> >>),
                  Obj(<< <<"response_data", Str("{}")>>,
                         <<"endpoint_path", Str("/customers")>>,
                         <<"endpoint_method", Str("GET")>>,
                         <<"goal", Bool(TRUE)>> >>)}]

ProbeKeys == {Undefined, Str(""), Str("key-1")}

\* The dispatcher from its switch to the handler's first await, under a
\* configuration with the given key.
Dispatch(req, apiKey) ==
    /\ probe = NoProbe
    /\ probe' = [op |-> "dispatch", req |-> req, apiKey |-> apiKey,
                 first |-> beforeLoad([config EXCEPT !.apiKey = apiKey], req)]
    /\ UNCHANGED server

\* A get-api-specs call from the return of loadOpenApiSpec to its end.
GetApiSpecs(spec, path, method) ==
    /\ probe = NoProbe
    /\ probe' = [op |-> "get-api-specs", spec |-> spec, path |-> path, method |-> method,
                 outcome |-> Resumed([IdleCall EXCEPT !.req =
                                         [kind |-> "tool", name |-> "get-api-specs",
                                          args |-> PM(path, method)]],
                                     spec).outcome]
    /\ UNCHANGED server

\* handleListAllEndpoints on a loaded spec, without and with filterByTag.
ListEndpoints(spec, tag) ==
    /\ probe = NoProbe
    /\ probe' = [op |-> "list", spec |-> spec, tag |-> tag,
                 unfiltered |-> handleListAllEndpoints(Obj(<<>>), spec),
                 filtered |-> handleListAllEndpoints(
                                  Obj(<< <<"filterByTag", Str(tag)>> >>), spec)]
    /\ UNCHANGED server

\* extractEndpointSummaries(spec) and getEndpointDetails(spec, path, method)
LookupEndpoint(spec, path, method) ==
    /\ probe = NoProbe
    /\ probe' = [op |-> "lookup", spec |-> spec, path |-> path, method |-> method,
                 summaries |-> extractEndpointSummaries(spec),
                 details |-> getEndpointDetails(spec, path, method)]
    /\ UNCHANGED server

\* resolveSchemaReferences(node, spec)
ResolveNode(node, spec) ==
    /\ probe = NoProbe
    /\ probe' = [op |-> "resolve", node |-> node, spec |-> spec,
                 result |-> resolve(node, spec)]
    /\ UNCHANGED server

ProbeNext ==
    \/ \E node \in ResolverNodes : \E spec \in ResolverSpecs : ResolveNode(node, spec)
    \/ \E spec \in IndexDocs : \E path \in LookupPaths : \E method \in LookupMethods :
          LookupEndpoint(spec, path, method)
    \/ \E spec \in IndexDocs : \E tag \in FilterTags : ListEndpoints(spec, tag)
    \/ \E parameters \in ParameterObjects : BuildUrl(parameters)
    \/ \E req \in ShapeRequests : \E apiKey \in ProbeKeys : Dispatch(req, apiKey)
    \/ \E e \in ConfigEnvs : ReadConfig(e)
    \/ \E headers \in HeaderObjects : BuildHeaders(headers)
    \/ \E value \in GuardValues : RecogniseOperation(value)
    \/ \E spec \in IndexDocs : \E path \in LookupPaths : \E method \in LookupMethods :
          GetApiSpecs(spec, path, method)

ProbeSpec == ProbeInit /\ [][ProbeNext]_vars

(***************************************************************************)
(* Properties.                                                             *)
(***************************************************************************)
Has(io, event) == \E i \in 1..Len(io) : io[i] = event

IsInvoke(call) == call.req.kind = "tool" /\ call.req.name = "invoke-api-endpoint"

Rejected(call, message) ==
    call.pc = "done" /\ call.outcome = McpError("InvalidRequest", message)

ReadOnlyMessage == "API calls are disabled in read-only mode"
ApiKeyMessage   == "API key is required"
NotFoundMessage == "Endpoint not found"

\* The load attempt returned a value the cache test takes for a spec.
LoadOk(r) == r.ok /\ Truthy(r.v)

\* The endpoint the arguments name is in `spec`.
Known(spec, args) ==
    /\ getEndpointDetails(spec, Get(args, "path").s, Get(args, "method").s).ok
    /\ Truthy(getEndpointDetails(spec, Get(args, "path").s, Get(args, "method").s).v)

C2_ReadOnlyAllowsGet ==
    config.readOnlyMode /\ Truthy(config.apiKey) =>
        \A c \in CallIds :
            /\ IsInvoke(calls[c])
            /\ calls[c].pc = "done"
            /\ toUpperCase(Get(calls[c].req.args, "method").s) = "GET"
            /\ Known(openApiSpec, calls[c].req.args)
            => calls[c].outcome.kind = "content"

\* C3: with no API key configured (unset or the empty string) every
\* invoke-api-endpoint call is rejected as an invalid request and performs no
\* outbound request, whether read-only mode is on or off.
C3_NoApiKeyRejectsInvoke ==
    ~Truthy(config.apiKey) =>
        \A c \in CallIds :
            IsInvoke(calls[c]) =>
                /\ calls[c].pc = "done"
                /\ calls[c].outcome.kind = "McpError"
                /\ calls[c].outcome.code = "InvalidRequest"
                /\ calls[c].io = <<>>

\* The key is the empty string, read-only mode is off, the call is refused
\* for the missing key.
C3_Witness ==
    /\ env.IRON_API_KEY = Str("")
    /\ ~config.readOnlyMode
    /\ \E c \in CallIds : IsInvoke(calls[c]) /\ Rejected(calls[c], ApiKeyMessage)

\* C4: an invoke-api-endpoint call issues the outbound request only if
\* getEndpointDetails on the spec it was given returned a record; when it
\* returned null the call is rejected with "Endpoint not found" and no
\* request is issued.
C4_RequestOnlyForKnownEndpoint ==
    \A c \in CallIds :
        IsInvoke(calls[c]) =>
            /\ Has(calls[c].io, "request") => Known(calls[c].spec, calls[c].req.args)
            /\ /\ calls[c].pc # "idle"
               /\ getEndpointDetails(calls[c].spec, Get(calls[c].req.args, "path").s,
                                     Get(calls[c].req.args, "method").s) = Returned(Null)
               => /\ Rejected(calls[c], NotFoundMessage)
                  /\ ~Has(calls[c].io, "request")

\* DELETE /customers is not in the spec the call was given, though the path is.
C4_Witness ==
    \E c \in CallIds :
        /\ IsInvoke(calls[c])
        /\ calls[c].req.args = PM("/customers", "DELETE")
        /\ HasKey(Get(calls[c].spec, "paths"), "/customers")
        /\ Rejected(calls[c], NotFoundMessage)
        /\ ~Has(calls[c].io, "request")

\* One of the three precondition rejections of invoke-api-endpoint.
PreconditionRejected(call) ==
    \/ Rejected(call, ReadOnlyMessage)
    \/ Rejected(call, ApiKeyMessage)
    \/ Rejected(call, NotFoundMessage)

\* C5 as stated: every precondition rejection of invoke-api-endpoint, the
\* unknown endpoint included, happens before any network activity of the
\* call, the fetch of the spec included, whatever the state of the cache.
C5_RejectionBeforeAnyNetwork ==
    \A c \in CallIds :
        IsInvoke(calls[c]) /\ PreconditionRejected(calls[c]) =>
            /\ ~Has(calls[c].io, "fetch")
            /\ ~Has(calls[c].io, "request")

\* C5 amended: the read-only and the missing-key rejection happen before any
\* I/O of the call, so a call made in read-only mode or without a key ends
\* rejected with no I/O; the unknown-endpoint rejection happens after
\* loadOpenApiSpec has returned and before the outbound request, so it is
\* preceded by the spec fetch whenever the call found the cache empty.
C5_RejectionOrder ==
    \A c \in CallIds :
        IsInvoke(calls[c]) =>
            /\ config.readOnlyMode \/ ~Truthy(config.apiKey) =>
                  /\ Rejected(calls[c], ReadOnlyMessage) \/ Rejected(calls[c], ApiKeyMessage)
                  /\ calls[c].io = <<>>
            /\ Rejected(calls[c], ReadOnlyMessage) \/ Rejected(calls[c], ApiKeyMessage) =>
                  calls[c].io = <<>>
            /\ Rejected(calls[c], NotFoundMessage) =>
                  /\ ~Has(calls[c].io, "request")
                  /\ Truthy(calls[c].spec)
                  /\ calls[c].load.n > 0 /\ UrlConfigured(config) =>
                        calls[c].io[1] = "fetch"

\* An unknown endpoint is refused by a call that fetched the spec first.
C5_Witness ==
    \E c \in CallIds :
        /\ IsInvoke(calls[c])
        /\ Rejected(calls[c], NotFoundMessage)
        /\ calls[c].load.n > 0
        /\ calls[c].load.fetched
        /\ Has(calls[c].io, "fetch")

\* C6: once the three preconditions have passed, whatever the outbound
\* request does (a response, an HTTP error, a timeout, any other fault) the
\* call does not throw: it returns one text content, the formatted response
\* or the formatted error.
C6_InvokeNeverThrowsAfterPreconditions ==
    \A c \in CallIds :
        IsInvoke(calls[c]) /\ Has(calls[c].io, "request") /\ calls[c].pc = "done" =>
            /\ calls[c].outcome.kind = "content"
            /\ calls[c].outcome.text.format \in {"formatApiResponse", "formatApiError"}

\* The request failed with an error that is no AxiosError and the call
\* returned the formatted error.
C6_Witness ==
    \E c \in CallIds :
        /\ IsInvoke(calls[c])
        /\ Has(calls[c].io, "request")
        /\ calls[c].pc = "done"
        /\ calls[c].outcome.kind = "content"
        /\ calls[c].outcome.text.format = "formatApiError"
        /\ calls[c].outcome.text.detail = "none"

LoadIo(io) == Has(io, "fetch") \/ Has(io, "readFile") \/ Has(io, "parse")

\* Call c is accepted in this step and its handler calls loadOpenApiSpec.
StartsLoadSpec(c) ==
    /\ calls[c].pc = "idle"
    /\ calls'[c].pc # "idle"
    /\ beforeLoad(config, calls'[c].req).step = "load"

\* loadOpenApiSpec returns to call c in this step.
LoadSpecReturns(c) ==
    /\ calls[c].pc \in {"idle", "fetching"}
    /\ calls'[c].pc \in {"sending", "done"}
    /\ beforeLoad(config, calls'[c].req).step = "load"
    /\ calls'[c].load.n = 0 \/ calls'[c].load.result.ok

\* C7: a loadOpenApiSpec call that starts when the cache holds a spec returns
\* the cached instance in the same step, with no fetch, file read or parse and
\* no change of the cache; so when calls do not overlap, no load attempt
\* follows a successful one: only the last attempt of a run can be successful.
C7_CachedLoadDoesNoIo ==
    /\ [][\A c \in CallIds :
             StartsLoadSpec(c) /\ Truthy(openApiSpec) =>
                /\ calls'[c].spec = openApiSpec
                /\ calls'[c].load = NoLoad
                /\ ~LoadIo(calls'[c].io)
                /\ openApiSpec' = openApiSpec
                /\ loadLog' = loadLog]_vars
    /\ [](\A i \in 1..Len(loadLog) : LoadOk(loadLog[i]) => i = Len(loadLog))

\* A call was served from the cache that the one load of the run filled.
C7_Witness ==
    /\ ~overlapping
    /\ Len(loadLog) = 1
    /\ LoadOk(loadLog[1])
    /\ \E c \in CallIds :
          /\ calls[c].pc = "done"
          /\ calls[c].load = NoLoad
          /\ calls[c].spec = loadLog[1].v
          /\ calls[c].spec = openApiSpec
          /\ calls[c].outcome.kind = "content"

\* The first load attempt that returned a spec.
FirstLoad == CHOOSE i \in 1..Len(loadLog) :
                 LoadOk(loadLog[i]) /\ \A j \in 1..(i - 1) : ~LoadOk(loadLog[j])

\* C8 as stated: every spec a loadOpenApiSpec call has returned is the
\* instance the first successful load cached, and the cache cell is assigned a
\* spec at most once.
C8_AlwaysFirstInstance ==
    /\ \A c \in CallIds :
          calls[c].pc \in {"sending", "done"} /\ Truthy(calls[c].spec) =>
              calls[c].spec = loadLog[FirstLoad].v
    /\ Cardinality({i \in 1..Len(loadLog) : LoadOk(loadLog[i])}) <= 1

\* C8 amended: a loadOpenApiSpec call returns the instance the cache holds at
\* the moment it returns.  A call that found the cache empty when it started
\* assigns the cell with its own instance and returns that one, also when
\* another load has succeeded in between (last write wins), so the cell can be
\* assigned more than once; a call that starts after a successful load returns
\* the instance cached at that time.
C8_ReturnsCachedAtReturn ==
    [][\A c \in CallIds :
          LoadSpecReturns(c) =>
             /\ calls'[c].spec = openApiSpec'
             /\ calls'[c].load.n > 0 => calls'[c].spec = calls'[c].load.result.v
             /\ calls'[c].load.n = 0 => calls'[c].spec = openApiSpec]_vars

\* Two overlapping loads both succeeded; the second one replaced the cached
\* instance and its caller holds the second instance.
C8_Witness ==
    /\ Len(loadLog) = 2
    /\ LoadOk(loadLog[1])
    /\ LoadOk(loadLog[2])
    /\ loadLog[1].v # loadLog[2].v
    /\ openApiSpec = loadLog[2].v
    /\ \E c \in CallIds :
          /\ calls[c].pc \in {"sending", "done"}
          /\ calls[c].load.n = 2
          /\ calls[c].spec = loadLog[2].v

\* The text parses to a document with a `paths` mapping.
ParsesToDocument(text) ==
    /\ parseSpec(text).ok
    /\ parseSpec(text).v.t = "object"
    /\ ~PathsMissing(parseSpec(text).v)

\* The load attempt of `call` had its fetch fail and read a fallback file
\* that parses to a document.
FellBack(call) ==
    /\ call.load.n > 0
    /\ UrlConfigured(config)
    /\ ~call.load.fetched
    /\ call.load.file.ok
    /\ ParsesToDocument(call.load.file.v)

LoadFailure == McpError("InternalError", "Failed to load OpenAPI spec")

\* C9: when the fetch from the configured spec URL fails and the local file is
\* read and parses to a spec document, loadOpenApiSpec returns the document
\* parsed from the file and caches it (it is the cached value until a later
\* load replaces it), and the calling operation ends without an internal
\* error: listing and the prompts return their normal result.
C9_FallbackFileServesTheCall ==
    \A c \in CallIds :
        FellBack(calls[c]) =>
            /\ calls[c].pc \in {"sending", "done"}
            /\ calls[c].load.result.ok
            /\ calls[c].spec = Fresh(parseSpec(calls[c].load.file.v).v, calls[c].load.n)
            /\ loadLog[calls[c].load.n] = Returned(calls[c].spec)
            /\ Len(loadLog) = calls[c].load.n => openApiSpec = calls[c].spec
            /\ calls[c].pc = "done" =>
                  /\ ~(calls[c].outcome.kind = "McpError"
                       /\ calls[c].outcome.code = "InternalError")
                  /\ calls[c].req.name \in {"list-all-endpoints", "find-endpoint",
                                            "test-endpoint"} =>
                        calls[c].outcome.kind \in {"content", "messages"}

\* The fetch failed, the file was read, and list-all-endpoints returned the
\* summary of the file's document, which is now cached.
C9_Witness ==
    \E c \in CallIds :
        /\ FellBack(calls[c])
        /\ calls[c].io = <<"fetch", "readFile", "parse">>
        /\ calls[c].req.name = "list-all-endpoints"
        /\ calls[c].pc = "done"
        /\ calls[c].outcome.kind = "content"
        /\ openApiSpec = calls[c].spec
        /\ HasKey(openApiSpec, "paths")

\* C10: a load attempt that fails (file unreadable after a failed or absent
\* fetch, or content neither YAML nor JSON) ends the calling operation with the
\* internal error "Failed to load OpenAPI spec" and leaves the cache as it
\* was, hence empty unless another load has succeeded; the next call that
\* needs the spec and finds the cache empty starts a complete new attempt:
\* the fetch when a spec URL is configured, the file read otherwise.
C10_FailedLoadCachesNothing ==
    /\ [](\A c \in CallIds :
             calls[c].load.n > 0 /\ ~calls[c].load.result.ok =>
                /\ calls[c].pc = "done"
                /\ calls[c].outcome = LoadFailure
                /\ calls[c].spec = Undefined
                /\ (\A i \in 1..Len(loadLog) : ~LoadOk(loadLog[i])) => ~Truthy(openApiSpec))
    /\ [][Len(loadLog') > Len(loadLog) /\ ~loadLog'[Len(loadLog')].ok =>
             openApiSpec' = openApiSpec]_vars
    /\ [][\A c \in CallIds :
             /\ StartsLoadSpec(c)
             /\ Len(loadLog) > 0
             /\ ~loadLog[Len(loadLog)].ok
             /\ ~Truthy(openApiSpec)
             => IF UrlConfigured(config)
                THEN /\ calls'[c].pc = "fetching"
                     /\ calls'[c].io = <<"fetch">>
                ELSE /\ calls'[c].load.n = Len(loadLog) + 1
                     /\ calls'[c].io[1] = "readFile"]_vars

\* After a failed attempt, which left the cache empty and ended its call with
\* the internal error, a call began a second attempt, and that one succeeded.
C10_Witness ==
    /\ Len(loadLog) = 2
    /\ ~loadLog[1].ok
    /\ LoadOk(loadLog[2])
    /\ \E c \in CallIds :
          /\ calls[c].load.n = 2
          /\ Has(calls[c].io, "parse")
          /\ calls[c].spec = openApiSpec

\* The reference strings under v.
RECURSIVE refsIn(_)
refsIn(v) ==
    IF v.t = "array" THEN UNION {refsIn(v.a[i]) : i \in 1..Len(v.a)}
    ELSE IF v.t # "object" THEN {}
    ELSE IF HasKey(v, "$ref") THEN {Get(v, "$ref").s}
    ELSE UNION {refsIn(v.e[i][2]) : i \in 1..Len(v.e)}

\* The references in the schema that ref names.
refersTo(spec, ref) ==
    IF isSchemaRef(split(ref)) /\ Truthy(referencedSchema(spec, split(ref)))
    THEN refsIn(referencedSchema(spec, split(ref)))
    ELSE {}

RECURSIVE reachableRefs(_, _, _)
reachableRefs(spec, refs, n) ==
    IF n = 0 THEN refs
    ELSE reachableRefs(spec, refs \cup UNION {refersTo(spec, r) : r \in refs}, n - 1)

\* No component schema reaches itself through references.
CycleFree(spec) ==
    \A r \in {RefA, RefB} : r \notin reachableRefs(spec, refersTo(spec, r), 2)

\* C11: on a spec whose component schemas have no reference cycle, resolving
\* the result of a resolution again gives the same value, also for a node
\* that refers to the same schema from two sibling positions.
C11_ResolveIdempotent ==
    probe.op = "resolve" /\ CycleFree(probe.spec) =>
        resolve(probe.result.v, probe.spec).v = probe.result.v

\* C12: resolution ends on every spec and node, the self-referential and the
\* mutually referential schemas included: the nesting of calls stays within
\* MaxResolveDepth; where a cycle closes the result holds the bare {$ref}.
C12_ResolveTerminates ==
    probe.op = "resolve" =>
        /\ ~probe.result.overflow
        /\ probe.spec = SelfSchemas /\ probe.node = Ref(RefA) =>
              probe.result.v = Obj(<< <<"next", Ref(RefA)>> >>)
        /\ probe.spec = MutualSchemas /\ probe.node = Ref(RefA) =>
              probe.result.v = Obj(<< <<"items", Obj(<< <<"items", Ref(RefA)>> >>)>> >>)

\* A reference to the self-referential schema was resolved; the result keeps
\* the reference where the cycle closes.
C12_Witness ==
    /\ probe.op = "resolve"
    /\ ~CycleFree(probe.spec)
    /\ probe.node = Ref(RefA)
    /\ probe.spec = SelfSchemas
    /\ RefA \in refsIn(probe.result.v)
    /\ probe.result.v # probe.node

\* C13: for every entry (path, METHOD) of the listing of a spec, the lookup of
\* path with METHOD, or with the method in any other letter case, returns a
\* record, and its operationId and summary are those of the entry.
C13_ListedEndpointsAreFound ==
    probe.op = "lookup" =>
        \A i \in 1..Len(probe.summaries.v) :
            /\ probe.summaries.v[i].path = probe.path
            /\ probe.summaries.v[i].method = toUpperCase(probe.method)
            => /\ probe.details.ok
               /\ probe.details.v # Null
               /\ Get(probe.details.v, "operationId") = probe.summaries.v[i].operationId
               /\ Get(probe.details.v, "summary") = probe.summaries.v[i].summary
               /\ probe.details
                     = getEndpointDetails(probe.spec, probe.path, probe.summaries.v[i].method)

\* The second listed endpoint of a two-path document was looked up with its
\* method in mixed case.
C13_Witness ==
    /\ probe.op = "lookup"
    /\ probe.method = "Post"
    /\ probe.path = "/addresses"
    /\ Len(probe.summaries.v) >= 2
    /\ \E i \in 2..Len(probe.summaries.v) :
          /\ probe.summaries.v[i].path = "/addresses"
          /\ probe.summaries.v[i].method = "POST"
          /\ Get(probe.details.v, "operationId") = Str("createAddress")

\* The bucket of `tag` in a summary, as a list of one bucket or none.
OwnBucket(summary, tag) ==
    SelectSeq(summary.endpointsByTag, LAMBDA b : b[1] = tag)

\* The endpoints of all buckets of a summary.
EndpointsOf(summary) ==
    UNION {{summary.endpointsByTag[i][2][j] : j \in 1..Len(summary.endpointsByTag[i][2])} :
              i \in 1..Len(summary.endpointsByTag)}

\* The tags an endpoint carries.
TagsOf(endpoint) ==
    IF endpoint.tags.t = "array"
    THEN {endpoint.tags.a[i].s : i \in 1..Len(endpoint.tags.a)}
    ELSE {}

\* C14: list-all-endpoints with filterByTag = T returns the bucket T of the
\* unfiltered summary and nothing else, with totalEndpoints the size of that
\* bucket; when the unfiltered summary has no bucket T the result has no
\* bucket and totalEndpoints = 0; in both cases the call returns.
C14_FilterReturnsTheBucket ==
    probe.op = "list" /\ probe.unfiltered.step = "return" =>
        /\ probe.filtered.step = "return"
        /\ probe.filtered.result.text.endpointsByTag
              = OwnBucket(probe.unfiltered.result.text, probe.tag)
        /\ probe.filtered.result.text.totalEndpoints
              = IF OwnBucket(probe.unfiltered.result.text, probe.tag) = <<>> THEN 0
                ELSE Len(OwnBucket(probe.unfiltered.result.text, probe.tag)[1][2])

\* C15: filtering by a tag T that some endpoint carries yields exactly the
\* endpoints whose tags list contains T, at whatever position.
C15_FilterByAnyTag ==
    /\ probe.op = "list"
    /\ probe.unfiltered.step = "return"
    /\ \E e \in EndpointsOf(probe.unfiltered.result.text) : probe.tag \in TagsOf(e)
    => /\ probe.filtered.step = "return"
       /\ EndpointsOf(probe.filtered.result.text)
             = {e \in EndpointsOf(probe.unfiltered.result.text) : probe.tag \in TagsOf(e)}

\* The entries of `parameters` that qualify for the query string, in the
\* order in which the properties were created.
Qualifying(parameters) ==
    IF parameters.t = "object"
    THEN SelectSeq(parameters.e, LAMBDA x : x[2].t \notin {"undefined", "null"})
    ELSE <<>>

\* The keys and the values of the query string of a URL, in order: the URL
\* is base, path, then "?", and key "=" value for each pair with "&" between.
QueryKeys(url)   == [i \in 1..((Len(url) - 2) \div 4) |-> url[4 * i]]
QueryValues(url) == [i \in 1..((Len(url) - 2) \div 4) |-> url[4 * i + 2]]

UrlWellFormed(url, parameters) ==
    /\ url[1] = StringOf(config.baseUrl)
    /\ url[2] = "/customers"
    /\ Len(url) = IF Qualifying(parameters) = <<>> THEN 2
                  ELSE 2 + 4 * Len(Qualifying(parameters))
    /\ Len(url) > 2 => url[3] = "?"
    /\ \A i \in 1..Len(QueryKeys(url)) :
          /\ url[4 * i + 1] = "="
          /\ i > 1 => url[4 * i - 1] = "&"
          /\ \E j \in 1..Len(Qualifying(parameters)) :
                /\ Qualifying(parameters)[j][1] = QueryKeys(url)[i]
                /\ StringOf(Qualifying(parameters)[j][2]) = QueryValues(url)[i]

\* C16 as stated: the URL is baseUrl + path and then, when a key qualifies,
\* "?" and the qualifying keys with their stringified values in the
\* insertion order of `parameters`.
C16_QueryInInsertionOrder ==
    probe.op = "url" =>
        /\ UrlWellFormed(probe.url, probe.parameters)
        /\ QueryKeys(probe.url)
              = [i \in 1..Len(Qualifying(probe.parameters)) |->
                    Qualifying(probe.parameters)[i][1]]

\* C16 amended: the same URL, with the qualifying keys in the order
\* Object.entries enumerates them: the keys that are array indices first, in
\* ascending numeric order, then the other keys in insertion order.
C16_QueryInEnumerationOrder ==
    probe.op = "url" =>
        /\ UrlWellFormed(probe.url, probe.parameters)
        /\ \A i, j \in 1..Len(QueryKeys(probe.url)) :
              i < j =>
                 LET a == QueryKeys(probe.url)[i]
                     b == QueryKeys(probe.url)[j]
                     Position(k) == CHOOSE n \in 1..Len(Qualifying(probe.parameters)) :
                                        Qualifying(probe.parameters)[n][1] = k
                 IN IF ArrayIndex(a) >= 0
                    THEN ArrayIndex(b) < 0 \/ ArrayIndex(a) < ArrayIndex(b)
                    ELSE ArrayIndex(b) < 0 /\ Position(a) < Position(b)

\* `limit: 0` was given before `2: false`; both are kept, and 2 comes first.
C16_Witness ==
    /\ probe.op = "url"
    /\ probe.parameters = Obj(<< <<"limit", Num(0)>>, <<"2", Bool(FALSE)>> >>)
    /\ probe.url = <<StringOf(config.baseUrl), "/customers",
                     "?", "2", "=", "false", "&", "limit", "=", "0">>

\* An optional field is present with a value of another type than declared.
WrongOptional(args, key, types) ==
    HasKey(args, key) /\ Get(args, key).t \notin types

\* The arguments do not have the shape the tool or prompt declares.
WrongShape(req) ==
    \/ req.args.t # "object"
    \/ /\ req.name \in {"get-api-specs", "invoke-api-endpoint", "test-endpoint"}
       /\ Get(req.args, "path").t # "string" \/ Get(req.args, "method").t # "string"
    \/ req.name = "find-endpoint" /\ Get(req.args, "goal").t # "string"
    \/ /\ req.name = "analyze-response"
       /\ \E k \in {"response_data", "endpoint_path", "endpoint_method"} :
             Get(req.args, k).t # "string"
    \/ req.name = "list-all-endpoints" /\ WrongOptional(req.args, "filterByTag", {"string"})
    \/ /\ req.name = "invoke-api-endpoint"
       /\ \E k \in {"parameters", "body", "headers"} : WrongOptional(req.args, k, {"object"})
    \/ /\ req.name \in {"test-endpoint", "analyze-response"}
       /\ WrongOptional(req.args, "goal", {"string"})

\* C17: a call whose arguments have the wrong shape, a wrongly typed optional
\* field included, is rejected with InvalidParams in the dispatcher, before
\* the spec is loaded and before the configuration checks.
C17_WrongShapeIsRejected ==
    probe.op = "dispatch" /\ WrongShape(probe.req) =>
        /\ probe.first.step = "throw"
        /\ probe.first.error.kind = "McpError"
        /\ probe.first.error.code = "InvalidParams"

\* The path names an entry of spec.paths, and that entry holds an operation
\* under the lower-cased method.
HasOperation(spec, path, method) ==
    /\ HasKey(Get(spec, "paths"), path)
    /\ HasKey(Get(Get(spec, "paths"), path), toLowerCase(method))
    /\ isOpenAPIOperation(Get(Get(Get(spec, "paths"), path), toLowerCase(method)))

\* C18: get-api-specs for a path that is not in the spec, or for a method
\* with no operation under the path, ends with the McpError InvalidRequest
\* "Endpoint not found", as the handler threw it.
C18_GetApiSpecsNotFound ==
    probe.op = "get-api-specs" /\ ~HasOperation(probe.spec, probe.path, probe.method) =>
        probe.outcome = McpError("InvalidRequest", "Endpoint not found")

\* The environment loadConfig selects: production unless one is set.
SelectedEnvironment(e) ==
    IF e.IRON_ENVIRONMENT \in {Undefined, Str("")} THEN "production"
    ELSE e.IRON_ENVIRONMENT.s

\* C19: for every value of IRON_ENVIRONMENT, the spec URL and the base URL of
\* the configuration are the override when one is given, else the default of
\* the selected environment, production being selected when none is set; so
\* the base URL is a string in every configuration.
C19_UrlsOverrideOrDefault ==
    probe.op = "config" =>
        /\ probe.config.environment = Str(SelectedEnvironment(probe.env))
        /\ probe.config.openApiSpecUrl
              = IF probe.env.IRON_OPENAPI_SPEC_URL \notin {Undefined, Str("")}
                THEN probe.env.IRON_OPENAPI_SPEC_URL
                ELSE Get(defaultSpecUrls, SelectedEnvironment(probe.env))
        /\ probe.config.baseUrl
              = IF probe.env.IRON_BASE_URL \notin {Undefined, Str("")}
                THEN probe.env.IRON_BASE_URL
                ELSE Get(defaultBaseUrls, SelectedEnvironment(probe.env))
        /\ probe.config.baseUrl.t = "string"

\* C20: whenever the spec cache is populated, the cached value is a document
\* with a `paths` mapping, so reading its paths never faults.
C20_CachedSpecHasPaths ==
    Truthy(openApiSpec) =>
        /\ openApiSpec.t = "object"
        /\ Get(openApiSpec, "paths").t = "object"
        /\ extractEndpointSummaries(openApiSpec).ok

\* The reference names a schema that components.schemas holds.
Resolvable(spec, ref) ==
    isSchemaRef(split(ref)) /\ Truthy(referencedSchema(spec, split(ref)))

\* C21: on a spec whose component schemas have no reference cycle, the result
\* of resolving a node holds no reference to a schema of components.schemas,
\* however many times the node refers to the same schema.
C21_NoResolvableRefRemains ==
    probe.op = "resolve" /\ CycleFree(probe.spec) =>
        \A ref \in refsIn(probe.result.v) : ~Resolvable(probe.spec, ref)

\* The bucket key the summary is to use for an endpoint.
KeyOf(endpoint) ==
    IF endpoint.tags.t = "array" /\ Len(endpoint.tags.a) > 0
    THEN endpoint.tags.a[1].s
    ELSE "default"

RECURSIVE SumOfLengths(_)
SumOfLengths(buckets) ==
    IF buckets = <<>> THEN 0 ELSE Len(Head(buckets)[2]) + SumOfLengths(Tail(buckets))

\* C22: the summary partitions the listing: the bucket keys are distinct,
\* each bucket holds, in listing order, the endpoints whose first tag (or
\* "default" when there is none) is its key, every endpoint has its bucket,
\* and totalEndpoints is the length of the listing and the sum of the bucket
\* lengths; with no paths the listing is empty and totalEndpoints is 0.
C22_SummaryPartitionsListing ==
    probe.op = "list" /\ extractEndpointSummaries(probe.spec).ok =>
        LET listing == extractEndpointSummaries(probe.spec).v
            summary == probe.unfiltered.result.text
            buckets == summary.endpointsByTag
        IN /\ probe.unfiltered.step = "return"
           /\ \A i, j \in 1..Len(buckets) : buckets[i][1] = buckets[j][1] => i = j
           /\ \A i \in 1..Len(buckets) :
                 /\ buckets[i][2] # <<>>
                 /\ buckets[i][2] = SelectSeq(listing, LAMBDA e : KeyOf(e) = buckets[i][1])
           /\ \A k \in 1..Len(listing) :
                 \E i \in 1..Len(buckets) : buckets[i][1] = KeyOf(listing[k])
           /\ summary.totalEndpoints = Len(listing)
           /\ summary.totalEndpoints = SumOfLengths(buckets)
           /\ Get(probe.spec, "paths") = Obj(<<>>) =>
                 listing = <<>> /\ summary.totalEndpoints = 0

\* The default headers of a request sent with the key apiKey.
DefaultHeaders(apiKey) ==
    << <<"X-API-key", apiKey>>, <<"Content-Type", Str("application/json")>> >>

\* The names and the value of a name in a list of headers.
NamesIn(h) == {h[i][1] : i \in 1..Len(h)}

ValuesOf(h, name) == {h[i][2] : i \in {j \in 1..Len(h) : h[j][1] = name}}

\* C23: the headers sent are the defaults overlaid by the caller's headers:
\* a name the caller supplies is sent once with the caller's value, a default
\* name the caller does not supply is sent with its default value, and no
\* other name is sent.
C23_CallerHeadersOverlayDefaults ==
    probe.op = "headers" =>
        LET caller   == Entries(probe.headers)
            defaults == DefaultHeaders(probe.apiKey)
        IN /\ NamesIn(probe.sent) = NamesIn(defaults) \cup NamesIn(caller)
           /\ \A i, j \in 1..Len(probe.sent) : probe.sent[i][1] = probe.sent[j][1] => i = j
           /\ \A name \in NamesIn(caller) :
                 ValuesOf(probe.sent, name) = ValuesOf(caller, name)
           /\ \A name \in NamesIn(defaults) \ NamesIn(caller) :
                 ValuesOf(probe.sent, name) = ValuesOf(defaults, name)

\* The caller supplied its own X-API-key and no Content-Type: the caller's
\* key and the default Content-Type were sent.
C23_Witness ==
    /\ probe.op = "headers"
    /\ probe.headers.t = "object"
    /\ Get(probe.headers, "X-API-key") = Str("caller-key")
    /\ ~HasKey(probe.headers, "Content-Type")
    /\ ValuesOf(probe.sent, "X-API-key") = {Str("caller-key")}
    /\ ValuesOf(probe.sent, "Content-Type") = {Str("application/json")}
    /\ Str("caller-key") # probe.apiKey

\* A non-null object that carries one of the four keys, whatever its value.
CarriesOperationKey(v) ==
    /\ v.t = "object"
    /\ \E i \in 1..Len(v.e) : v.e[i][1] \in {"responses", "summary", "description", "operationId"}

\* The (path, METHOD) pairs of the entries that carry an operation key, in
\* the iteration order of the paths and of each path item.
RECURSIVE ExpectedOfItem(_, _)
ExpectedOfItem(path, entries) ==
    IF entries = <<>> THEN <<>>
    ELSE (IF CarriesOperationKey(Head(entries)[2])
          THEN << <<path, toUpperCase(Head(entries)[1])>> >> ELSE <<>>)
         \o ExpectedOfItem(path, Tail(entries))

RECURSIVE ExpectedOfPaths(_)
ExpectedOfPaths(paths) ==
    IF paths = <<>> THEN <<>>
    ELSE ExpectedOfItem(Head(paths)[1], Entries(Head(paths)[2]))
         \o ExpectedOfPaths(Tail(paths))

\* C24: isOpenAPIOperation is true exactly of the non-null objects that carry
\* one of responses, summary, description, operationId, whatever the value of
\* the key; the listing has one entry, with the method in upper case and in
\* iteration order, for exactly the path-item entries of which it is true.
C24_OperationRecognition ==
    /\ probe.op = "guard" => (probe.result <=> CarriesOperationKey(probe.value))
    /\ probe.op = "lookup" =>
          /\ probe.summaries.ok
          /\ [i \in 1..Len(probe.summaries.v) |->
                 <<probe.summaries.v[i].path, probe.summaries.v[i].method>>]
                = ExpectedOfPaths(Entries(Get(probe.spec, "paths")))

\* A path item holds an operation that has nothing but an empty `responses`
\* and the path-level parameter list: the listing has the first alone.
C24_Witness ==
    /\ probe.op = "lookup"
    /\ Get(probe.spec, "paths")
          = Obj(<< <<"/customers",
                     Obj(<< <<"parameters", Arr(<< Obj(<< <<"name", Str("id")>>,
                                                          <<"in", Str("path")>> >>) >>)>>,
                            <<"delete", Obj(<< <<"responses", Obj(<<>>)>> >>)>> >>)>> >>)
    /\ Len(probe.summaries.v) = 1
    /\ probe.summaries.v[1].path = "/customers"
    /\ probe.summaries.v[1].method = "DELETE"

\* The documents load attempts have returned so far.
LoadedDocuments == {loadLog[i].v : i \in {j \in 1..Len(loadLog) : loadLog[j].ok}}

\* A finished list-all-endpoints call without a filter.
UnfilteredListing(call) ==
    /\ call.pc = "done"
    /\ call.req.name = "list-all-endpoints"
    /\ ~Truthy(Get(call.req.args, "filterByTag"))

RequestsSent(call) == Cardinality({i \in 1..Len(call.io) : call.io[i] = "request"})

\* The call ended with the text formatApiError made.
FormattedFailure(call) ==
    /\ call.pc = "done"
    /\ IsInvoke(call)
    /\ call.outcome.kind = "content"
    /\ call.outcome.text.format = "formatApiError"

\* C26: a call issues at most one outbound request: while it waits for the
\* response it has sent one, and when it has ended in a formatted failure,
\* whatever the transport failure was, it has still sent only that one.
C26_AtMostOneRequest ==
    \A c \in CallIds :
        /\ RequestsSent(calls[c]) <= 1
        /\ calls[c].pc = "sending" => RequestsSent(calls[c]) = 1
        /\ FormattedFailure(calls[c]) => RequestsSent(calls[c]) = 1

\* An invocation whose request timed out has ended in a formatted failure
\* after one request.
C26_Witness ==
    \E c \in CallIds :
        /\ IsInvoke(calls[c])
        /\ FormattedFailure(calls[c])
        /\ calls[c].outcome.text.error = "timeout of 30000ms exceeded"
        /\ RequestsSent(calls[c]) = 1

\* C27: once the spec cache is populated it is never emptied: no step, the
\* end of a load attempt that overlaps a successful one included, takes the
\* cache from holding a spec to holding none.
C27_CacheNeverEmptied ==
    [][Truthy(openApiSpec) => Truthy(openApiSpec')]_vars

\* C28: the lookup returns a record only for what the listing lists: when
\* getEndpointDetails(spec, path, method) is not null, the listing of spec
\* has the entry (path, method in upper case).
C28_DetailsOnlyForListed ==
    probe.op = "lookup" /\ probe.details.ok /\ probe.details.v # Null =>
        \E i \in 1..Len(probe.summaries.v) :
            /\ probe.summaries.v[i].path = probe.path
            /\ probe.summaries.v[i].method = toUpperCase(probe.method)

\* C29: when an invocation ends in a formatted failure, the URL in the
\* failure text is the URL the request was sent to, query string included.
C29_FailureReportsSentUrl ==
    \A c \in CallIds :
        FormattedFailure(calls[c]) => calls[c].outcome.text.url = calls[c].request.url

\* A finished list-all-endpoints call that carried no arguments object.
ListingWithoutArguments(call) ==
    /\ call.pc = "done"
    /\ call.req.kind = "tool"
    /\ call.req.name = "list-all-endpoints"
    /\ call.req.args = Undefined

\* C30: list-all-endpoints called with no arguments object is accepted: it
\* is not rejected for its arguments, it goes on to the spec as the call
\* with an empty arguments object does, and with a loaded document it
\* returns the unfiltered summary.
C30_ListingWithoutArgumentsAccepted ==
    \A c \in CallIds :
        ListingWithoutArguments(calls[c]) =>
            /\ calls[c].outcome # McpError("InvalidParams", "Invalid arguments")
            /\ calls[c].spec.t = "object" /\ createSummary(calls[c].spec).ok =>
                  calls[c].outcome = Content(createSummary(calls[c].spec).v)

====
